---- MODULE Spec2Model ----
(***************************************************************************)
(* A model of the mtd utility library: Function (function.hpp), UniquePtr, *)
(* SharedPtr and WeakPtr (memory.hpp).                                     *)
(*                                                                         *)
(* Heap objects are addressed by small naturals; 0 is the null pointer.    *)
(* An address is never handed out twice, so a pointer to a deleted object  *)
(* stays recognisable as dangling.  Every use of a dangling or             *)
(* indeterminate pointer is recorded in ub and its effect is a choice over *)
(* the outcomes a build can produce.                                       *)
(***************************************************************************)
EXTENDS Integers, Sequences, FiniteSets, TLC

\* ---------------------------------------------------------------- bounds
MaxHolders == 3      \* callable holders that one sequential run can allocate
NumFunctions == 2    \* Function objects of the Function specification
MaxPointees == 2     \* objects that can be handed to a smart pointer
NumUnique == 2       \* UniquePtr objects of the UniquePtr specification
MaxCounters == 2     \* reference counters that one run can allocate
NumShared == 2       \* SharedPtr objects of the SharedPtr specification
NumWeak == 2         \* WeakPtr objects of the SharedPtr specification
NumThreads == 2      \* threads of the concurrent specifications
OpsPerThread == 3    \* operations each thread performs
NumAny == 2          \* Any objects of the Any specification
MaxBoxes == 3        \* value holders that one run of the Any program can allocate
MaxAnyHolders == 6   \* callable holders that one run of the Any program can allocate

\* ------------------------------------------------------------- constants
NULL == 0
\* an indeterminate, non-null pointer value that is the address of no object
Wild == NULL - 1
HAddr == 1..MaxHolders
PAddr == 1..MaxPointees
\* the callables wrapped in the model: the default deleter (delete ptr) and a
\* caller-supplied destroyer that logs
Callables == {"delete", "log"}
FnSlots == 1..NumFunctions
USlots == 1..NumUnique
CAddr == 1..MaxCounters
SSlots == 1..NumShared
WSlots == 1..NumWeak
\* what a load of a deleted counter can return: the memory holds garbage
FreedReads == {0, 1}

VARIABLES
  hold,    \* heap of CallableHolder objects: [st, fn, dels]
  obj,     \* the pointees: [st, log], log = the destroyer calls made on it
  ub,      \* undefined-behaviour events that have happened
  fns,     \* Function objects: [alive, callable_]
  up,      \* UniquePtr objects: [alive, ptr_, deleter_]
  cnt,     \* heap of std::atomic<int> counters: [st, val]
  sp,      \* SharedPtr objects: [alive, ptr_, ref_count_, deleter_]
  wp,      \* WeakPtr objects: [alive, ptr_, ref_count_]
  pc,      \* per thread: the operation in progress and the operations begun
  hist,    \* per counter: the threads whose fetch_sub returned 1, and that deleted it
  last,    \* the operation performed last: [op, a, b, calls]
  any,     \* Any objects: [alive, ptr_, deleter_], the fields of content_
  box      \* heap of Any::Holder<T> objects: [st, type, held, dels]

vars == <<hold, obj, ub, fns, up, cnt, sp, wp, pc, hist, last, any, box>>

notFunction == <<obj, up, cnt, sp, wp, pc, hist, any, box>>
notUnique == <<fns, cnt, sp, wp, pc, hist, any, box>>
notShared == <<fns, up, pc, hist, any, box>>
notSequential == <<fns, up, any, box>>
notAny == <<obj, fns, up, cnt, sp, wp, pc, hist>>

Op(name, x, y, cs) == [op |-> name, a |-> x, b |-> y, calls |-> cs]

\* ------------------------------------------------- the heap of holders
HolderInit(A) == [a \in A |-> [st |-> "unalloc", fn |-> "none", dels |-> 0]]

CanAlloc(h) == \E a \in DOMAIN h : h[a].st = "unalloc"

FreshHolder(h) ==
  CHOOSE a \in DOMAIN h :
    h[a].st = "unalloc" /\ \A b \in DOMAIN h : b < a => h[b].st # "unalloc"

IsHolder(h, p) == p \in DOMAIN h

\* new CallableHolder<Callable>(callable): the result is [h, u, p]
NewHolder(h, u, c) ==
  LET a == FreshHolder(h)
  IN  [h |-> [h EXCEPT ![a] = [st |-> "live", fn |-> c, dels |-> 0]], u |-> u, p |-> a]

\* a clone that hands out the holder itself
CloneShares(h, u, src) == {[h |-> h, u |-> u, p |-> src]}

\* callable_->clone(): a new holder with a copy of the callable.  Through a
\* deleted holder the call reads freed memory: the copy is of the stale
\* callable or the call yields garbage.
CloneHolder(h, u, src) ==
  IF IsHolder(h, src) /\ h[src].st = "live"
    THEN {NewHolder(h, u, h[src].fn)}
  ELSE IF IsHolder(h, src) /\ h[src].st = "freed"
    THEN {NewHolder(h, u \cup {"holder_use_after_free"}, h[src].fn),
          [h |-> h, u |-> u \cup {"holder_use_after_free"}, p |-> Wild]}
  ELSE {[h |-> h, u |-> u \cup {"wild_pointer_use"}, p |-> Wild]}

\* delete callable_
DeleteHolder(h, u, p) ==
  IF IsHolder(h, p) /\ h[p].st = "live"
    THEN [h |-> [h EXCEPT ![p].st = "freed", ![p].dels = 1], u |-> u]
  ELSE IF IsHolder(h, p)
    THEN [h |-> [h EXCEPT ![p].dels = 2], u |-> u \cup {"holder_double_delete"}]
  ELSE [h |-> h, u |-> u \cup {"wild_pointer_use"}]

\* ------------------------------------------------------------ Function
\* Function(): defaulted, and callable_ has no initializer: null when the
\* object is value-initialised, indeterminate otherwise
FunctionDefault == {NULL, Wild}

\* Function(Callable &&callable)
FunctionFromCallable(h, u, c) == {NewHolder(h, u, c)}

\* Function(const Function &other): callable_ is assigned only when other
\* holds a callable, and is left uninitialised otherwise
FunctionCopy(h, u, src) ==
  IF src # NULL THEN CloneHolder(h, u, src)
  ELSE {[h |-> h, u |-> u, p |-> q] : q \in {NULL, Wild}}

\* Function(Function &&other) noexcept = default: memberwise, the pointer is
\* copied and the source keeps it
FunctionMove(src) == [dst |-> src, src |-> src]

\* operator=(const Function &other), this != &other: the holder held before
\* is not deleted
FunctionCopyAssign(h, u, old, src) ==
  IF src # NULL THEN CloneHolder(h, u, src)
  ELSE {[h |-> h, u |-> u, p |-> NULL]}

\* ~Function()
FunctionDestroy(h, u, p) ==
  IF p # NULL THEN DeleteHolder(h, u, p) ELSE [h |-> h, u |-> u]

\* operator()(args...): the callable that runs, "throw" when none is held,
\* "none" when the call goes through garbage and runs no callable
FunctionCall(h, u, p) ==
  IF p = NULL THEN {[u |-> u, c |-> "throw"]}
  ELSE IF IsHolder(h, p) /\ h[p].st = "live" THEN {[u |-> u, c |-> h[p].fn]}
  ELSE IF IsHolder(h, p) /\ h[p].st = "freed"
    THEN {[u |-> u \cup {"holder_use_after_free"}, c |-> x] : x \in {h[p].fn, "none"}}
  ELSE {[u |-> u \cup {"wild_pointer_use"}, c |-> "none"]}

\* --------------------------------------- actions of the Function objects
FnConstruct(f, c) ==
  /\ ~fns[f].alive
  /\ CanAlloc(hold)
  /\ \E r \in FunctionFromCallable(hold, ub, c) :
       /\ hold' = r.h
       /\ ub' = r.u
       /\ fns' = [fns EXCEPT ![f] = [alive |-> TRUE, callable_ |-> r.p]]
  /\ last' = Op("FnConstruct", f, 0, <<>>)
  /\ UNCHANGED notFunction

FnDefault(f) ==
  /\ ~fns[f].alive
  /\ \E q \in FunctionDefault :
       fns' = [fns EXCEPT ![f] = [alive |-> TRUE, callable_ |-> q]]
  /\ last' = Op("FnDefault", f, 0, <<>>)
  /\ UNCHANGED <<hold, ub>>
  /\ UNCHANGED notFunction

FnCopyConstruct(d, s) ==
  /\ ~fns[d].alive
  /\ fns[s].alive
  /\ CanAlloc(hold)
  /\ \E r \in FunctionCopy(hold, ub, fns[s].callable_) :
       /\ hold' = r.h
       /\ ub' = r.u
       /\ fns' = [fns EXCEPT ![d] = [alive |-> TRUE, callable_ |-> r.p]]
  /\ last' = Op("FnCopyConstruct", d, s, <<>>)
  /\ UNCHANGED notFunction

FnMoveConstruct(d, s) ==
  /\ ~fns[d].alive
  /\ fns[s].alive
  /\ LET m == FunctionMove(fns[s].callable_)
     IN  fns' = [fns EXCEPT ![d] = [alive |-> TRUE, callable_ |-> m.dst],
                            ![s].callable_ = m.src]
  /\ last' = Op("FnMoveConstruct", d, s, <<>>)
  /\ UNCHANGED <<hold, ub>>
  /\ UNCHANGED notFunction

FnCopyAssign(d, s) ==
  /\ fns[d].alive
  /\ fns[s].alive
  /\ CanAlloc(hold)
  /\ IF d # s
       THEN \E r \in FunctionCopyAssign(hold, ub, fns[d].callable_, fns[s].callable_) :
              /\ hold' = r.h
              /\ ub' = r.u
              /\ fns' = [fns EXCEPT ![d].callable_ = r.p]
       ELSE UNCHANGED <<hold, ub, fns>>
  /\ last' = Op("FnCopyAssign", d, s, <<>>)
  /\ UNCHANGED notFunction

FnMoveAssign(d, s) ==
  /\ fns[d].alive
  /\ fns[s].alive
  /\ LET m == FunctionMove(fns[s].callable_)
     IN  fns' = [fns EXCEPT ![d].callable_ = m.dst, ![s].callable_ = IF d = s THEN m.dst ELSE m.src]
  /\ last' = Op("FnMoveAssign", d, s, <<>>)
  /\ UNCHANGED <<hold, ub>>
  /\ UNCHANGED notFunction

FnDestroy(f) ==
  /\ fns[f].alive
  /\ LET r == FunctionDestroy(hold, ub, fns[f].callable_)
     IN  /\ hold' = r.h
         /\ ub' = r.u
  /\ fns' = [fns EXCEPT ![f] = [alive |-> FALSE, callable_ |-> NULL]]
  /\ last' = Op("FnDestroy", f, 0, <<>>)
  /\ UNCHANGED notFunction

\* the state the smart-pointer objects start in
ObjInit == [p \in PAddr |-> [st |-> "fresh", log |-> <<>>]]

UpInit == [u \in USlots |-> [alive |-> FALSE, ptr_ |-> NULL, deleter_ |-> NULL]]

CntInit == [a \in CAddr |-> [st |-> "unalloc", val |-> 0]]

SpInit ==
  [x \in SSlots |-> [alive |-> FALSE, ptr_ |-> NULL, ref_count_ |-> NULL, deleter_ |-> NULL]]

WpInit == [w \in WSlots |-> [alive |-> FALSE, ptr_ |-> NULL, ref_count_ |-> NULL]]

Threads == 1..NumThreads

Idle == [at |-> "idle", op |-> "none", x |-> 0, y |-> 0]

PcInit == [t \in Threads |-> [run |-> Idle, begun |-> 0]]

HistInit == [a \in CAddr |-> [sawOne |-> {}, freedBy |-> {}]]

FnsInit == [f \in FnSlots |-> [alive |-> FALSE, callable_ |-> NULL]]

ASlots == 1..NumAny

BAddr == 1..MaxBoxes

AnyInit == [a \in ASlots |-> [alive |-> FALSE, ptr_ |-> NULL, deleter_ |-> NULL]]

BoxInit == [b \in BAddr |-> [st |-> "unalloc", type |-> "none", held |-> "none", dels |-> 0]]

InitFn ==
  /\ hold = HolderInit(HAddr)
  /\ obj = ObjInit
  /\ ub = {}
  /\ fns = FnsInit
  /\ up = UpInit
  /\ cnt = CntInit
  /\ sp = SpInit
  /\ wp = WpInit
  /\ pc = PcInit
  /\ hist = HistInit
  /\ last = Op("init", 0, 0, <<>>)
  /\ any = AnyInit
  /\ box = BoxInit

NextFn ==
  \/ \E f \in FnSlots, c \in Callables : FnConstruct(f, c)
  \/ \E f \in FnSlots : FnDefault(f)
  \/ \E d, s \in FnSlots : FnCopyConstruct(d, s)
  \/ \E d, s \in FnSlots : FnMoveConstruct(d, s)
  \/ \E d, s \in FnSlots : FnCopyAssign(d, s)
  \/ \E d, s \in FnSlots : FnMoveAssign(d, s)
  \/ \E f \in FnSlots : FnDestroy(f)

SpecFn == InitFn /\ [][NextFn]_vars

\* ------------------------------------------------ destroyers and pointees
\* the raw pointers a caller can hand over: null or the object that the next
\* new T yields (addresses are handed out in order)
FreshPointers(o) ==
  {NULL} \cup {p \in PAddr : o[p].st = "fresh" /\ \A q \in PAddr : q < p => o[q].st # "fresh"}

Adopt(o, p) == IF p = NULL THEN o ELSE [o EXCEPT ![p].st = "adopted"]

\* the callable c runs on pointer p in thread t
RunDestroyer(o, c, p, t) ==
  IF c \in Callables /\ p \in PAddr /\ Len(o[p].log) < 3
    THEN [o EXCEPT ![p].log = Append(@, [fn |-> c, t |-> t])]
    ELSE o

\* deleter_(ptr_): the results are [u, o, c], c the callable that ran
InvokeDeleter(h, u, o, del, p, t) ==
  {[u |-> r.u, o |-> RunDestroyer(o, r.c, p, t), c |-> r.c] : r \in FunctionCall(h, u, del)}

\* ------------------------------------------------------------ UniquePtr
\* A member Function copy-constructed or copy-assigned from a by-value
\* parameter (Dt deleter) that the caller made from the callable c: a new
\* holder with a copy of c.  The parameter's own holder is created and
\* deleted by the call expression and is not tracked.  An assignment does
\* not delete the holder the member held before.
FromParameter(h, u, c) == NewHolder(h, u, c)

\* UniquePtr(T *ptr, Dt deleter): ptr_(ptr), deleter_(deleter)
UConstruct(u, p, c) ==
  /\ ~up[u].alive
  /\ p \in FreshPointers(obj)
  /\ CanAlloc(hold)
  /\ LET r == FromParameter(hold, ub, c)
     IN
       /\ hold' = r.h
       /\ ub' = r.u
       /\ up' = [up EXCEPT ![u] = [alive |-> TRUE, ptr_ |-> p, deleter_ |-> r.p]]
  /\ obj' = Adopt(obj, p)
  /\ last' = Op("UConstruct", u, p, <<>>)
  /\ UNCHANGED notUnique

\* UniquePtr(UniquePtr &&other)
UMoveConstruct(d, s) ==
  /\ ~up[d].alive
  /\ up[s].alive
  /\ LET m == FunctionMove(up[s].deleter_)
     IN  up' = [up EXCEPT ![d] = [alive |-> TRUE, ptr_ |-> up[s].ptr_, deleter_ |-> m.dst],
                          ![s] = [alive |-> TRUE, ptr_ |-> NULL, deleter_ |-> m.src]]
  /\ last' = Op("UMoveConstruct", d, s, <<>>)
  /\ UNCHANGED <<hold, obj, ub>>
  /\ UNCHANGED notUnique

\* a reset that adopts the new pointer and destroyer before it invokes
UniqueResetAdoptsFirst(h, u, o, self, p, c) ==
  {LET k == FromParameter(h, u, c)
   IN  [h |-> k.h, u |-> i.u, o |-> i.o, ptr_ |-> p, deleter_ |-> k.p, c |-> i.c] :
     i \in InvokeDeleter(FromParameter(h, u, c).h, u, o, FromParameter(h, u, c).p, p, 0)}

\* reset(T *ptr, Dt deleter) on the fields self = [ptr_, deleter_]: the
\* results are [h, u, o, ptr_, deleter_, c], c the callable that ran
UniqueReset(h, u, o, self, p, c) ==
  {LET k == FromParameter(h, i.u, c)
   IN  [h |-> k.h, u |-> k.u, o |-> i.o, ptr_ |-> p, deleter_ |-> k.p, c |-> i.c] :
     i \in InvokeDeleter(h, u, o, self.deleter_, self.ptr_, 0)}

Call(c, p) == [fn |-> c, ptr |-> p]

UReset(x, p, c) ==
  /\ up[x].alive
  /\ p \in FreshPointers(obj)
  /\ CanAlloc(hold)
  /\ \E r \in UniqueReset(hold, ub, obj, up[x], p, c) :
       /\ hold' = r.h
       /\ ub' = r.u
       /\ obj' = Adopt(r.o, p)
       /\ up' = [up EXCEPT ![x].ptr_ = r.ptr_, ![x].deleter_ = r.deleter_]
       /\ last' = Op("UReset", x, p, <<Call(r.c, up[x].ptr_)>>)
  /\ UNCHANGED notUnique

\* operator=(UniquePtr &&other)
UMoveAssign(d, s) ==
  /\ up[d].alive
  /\ up[s].alive
  /\ IF d # s
       THEN /\ CanAlloc(hold)
            /\ \E r \in UniqueReset(hold, ub, obj, up[d], NULL, "delete") :
                 LET m == FunctionMove(up[s].deleter_)
                 IN  /\ hold' = r.h
                     /\ ub' = r.u
                     /\ obj' = r.o
                     /\ up' = [up EXCEPT ![d].ptr_ = up[s].ptr_, ![d].deleter_ = m.dst,
                                          ![s].ptr_ = NULL, ![s].deleter_ = m.src]
                     /\ last' = Op("UMoveAssign", d, s, <<Call(r.c, up[d].ptr_)>>)
       ELSE /\ UNCHANGED <<hold, ub, obj, up>>
            /\ last' = Op("UMoveAssign", d, s, <<>>)
  /\ UNCHANGED notUnique

\* ~UniquePtr(): deleter_(ptr_), then the member deleter_ is destroyed
UDestroy(x) ==
  /\ up[x].alive
  /\ \E i \in InvokeDeleter(hold, ub, obj, up[x].deleter_, up[x].ptr_, 0) :
       LET r == FunctionDestroy(hold, i.u, up[x].deleter_)
       IN  /\ hold' = r.h
           /\ ub' = r.u
           /\ obj' = i.o
           /\ last' = Op("UDestroy", x, 0, <<Call(i.c, up[x].ptr_)>>)
  /\ up' = [up EXCEPT ![x] = [alive |-> FALSE, ptr_ |-> NULL, deleter_ |-> NULL]]
  /\ UNCHANGED notUnique

InitUnique ==
  /\ hold = HolderInit(HAddr)
  /\ obj = ObjInit
  /\ ub = {}
  /\ fns = FnsInit
  /\ up = UpInit
  /\ cnt = CntInit
  /\ sp = SpInit
  /\ wp = WpInit
  /\ pc = PcInit
  /\ hist = HistInit
  /\ last = Op("init", 0, 0, <<>>)
  /\ any = AnyInit
  /\ box = BoxInit

NextUnique ==
  \/ \E x \in USlots, p \in {NULL} \cup PAddr, c \in Callables : UConstruct(x, p, c)
  \/ \E d, s \in USlots : UMoveConstruct(d, s)
  \/ \E d, s \in USlots : UMoveAssign(d, s)
  \/ \E x \in USlots, p \in {NULL} \cup PAddr, c \in Callables : UReset(x, p, c)
  \/ \E x \in USlots : UDestroy(x)

SpecUnique == InitUnique /\ [][NextUnique]_vars

\* ------------------------------------------- the heap of atomic counters
CanAllocCounter(cn) == \E a \in DOMAIN cn : cn[a].st = "unalloc"

FreshCounter(cn) ==
  CHOOSE a \in DOMAIN cn :
    cn[a].st = "unalloc" /\ \A b \in DOMAIN cn : b < a => cn[b].st # "unalloc"

\* new std::atomic<int>(1): the result is [cn, p]
NewCounter(cn) ==
  LET a == FreshCounter(cn)
  IN  [cn |-> [cn EXCEPT ![a] = [st |-> "live", val |-> 1]], p |-> a]

\* ref_count_->load(): the results are [u, v].  A deleted counter is freed
\* memory: the value read is garbage.
Load(cn, u, a) ==
  IF cn[a].st = "live" THEN {[u |-> u, v |-> cn[a].val]}
  ELSE {[u |-> u \cup {"counter_read_after_free"}, v |-> g] : g \in FreedReads}

\* a fetch_add that adds nothing
FetchAddNothing(cn, u, a) == [cn |-> cn, u |-> u]

\* ref_count_->fetch_add(1): the result is [cn, u].  A write to a deleted
\* counter lands in freed memory and is not tracked.
FetchAdd(cn, u, a) ==
  IF cn[a].st = "live"
    THEN [cn |-> [cn EXCEPT ![a].val = @ + 1],
          u |-> IF cn[a].val = 0 THEN u \cup {"increment_from_zero"} ELSE u]
    ELSE [cn |-> cn, u |-> u \cup {"increment_after_free"}]

\* a fetch_sub that returns the value and leaves it
FetchSubKeeps(cn, u, a) ==
  IF cn[a].st = "live"
    THEN {[cn |-> cn, u |-> u, old |-> cn[a].val]}
    ELSE {[cn |-> cn, u |-> u \cup {"decrement_after_free"}, old |-> g] : g \in FreedReads}

\* ref_count_->fetch_sub(1): the results are [cn, u, old]
FetchSub(cn, u, a) ==
  IF cn[a].st = "live"
    THEN {[cn |-> [cn EXCEPT ![a].val = @ - 1], u |-> u, old |-> cn[a].val]}
    ELSE {[cn |-> cn, u |-> u \cup {"decrement_after_free"}, old |-> g] : g \in FreedReads}

\* delete ref_count_: the result is [cn, u]
DeleteCounter(cn, u, a) ==
  IF cn[a].st = "live"
    THEN [cn |-> [cn EXCEPT ![a].st = "freed"], u |-> u]
    ELSE [cn |-> cn, u |-> u \cup {"counter_double_delete"}]

\* ------------------------------------------------------------ SharedPtr
\* use_count()
UseCount(cn, u, self) ==
  IF self.ref_count_ = NULL THEN {[u |-> u, v |-> 0]} ELSE Load(cn, u, self.ref_count_)

\* a release that compares the value fetched with 2
ObservedLastAtTwo(old) == old = 2

\* fetch_sub(1) == 1: this thread took the count from 1 to 0
ObservedLast(old) == old = 1

\* release() of the handle self = [ptr_, ref_count_, deleter_] in thread t:
\* the results are [h, u, o, cn, calls]
Release(h, u, o, cn, self, t) ==
  IF self.ref_count_ = NULL
    THEN {[h |-> h, u |-> u, o |-> o, cn |-> cn, calls |-> <<>>]}
    ELSE UNION {
      IF ObservedLast(f.old)
        THEN {LET d == DeleteCounter(f.cn, i.u, self.ref_count_)
              IN  [h |-> h, u |-> d.u, o |-> i.o, cn |-> d.cn,
                   calls |-> <<[fn |-> i.c, ptr |-> self.ptr_]>>] :
                i \in InvokeDeleter(h, f.u, o, self.deleter_, self.ptr_, t)}
        ELSE {[h |-> h, u |-> f.u, o |-> o, cn |-> f.cn, calls |-> <<>>]} :
      f \in FetchSub(cn, u, self.ref_count_)}

\* the object a constructor body starts from: ptr_ and ref_count_ are
\* overwritten by every constructor before they are read
Handle(p, c, d) == [alive |-> TRUE, ptr_ |-> p, ref_count_ |-> c, deleter_ |-> d]

DeadHandle == [alive |-> FALSE, ptr_ |-> NULL, ref_count_ |-> NULL, deleter_ |-> NULL]

\* SharedPtr(): ptr_(nullptr), ref_count_(nullptr), deleter_(Deleter())
SDefault(x) ==
  /\ ~sp[x].alive
  /\ CanAlloc(hold)
  /\ LET r == NewHolder(hold, ub, "delete")
     IN  /\ hold' = r.h
         /\ ub' = r.u
         /\ sp' = [sp EXCEPT ![x] = Handle(NULL, NULL, r.p)]
  /\ last' = Op("SDefault", 0, 0, <<>>)
  /\ UNCHANGED <<obj, cnt, wp>>
  /\ UNCHANGED notShared

\* SharedPtr(T *ptr, Dt deleter): a counter is allocated also for a null ptr
SConstruct(x, p, c) ==
  /\ ~sp[x].alive
  /\ p \in FreshPointers(obj)
  /\ CanAlloc(hold)
  /\ CanAllocCounter(cnt)
  /\ LET r == FromParameter(hold, ub, c)
         n == NewCounter(cnt)
     IN  /\ hold' = r.h
         /\ ub' = r.u
         /\ cnt' = n.cn
         /\ sp' = [sp EXCEPT ![x] = Handle(p, n.p, r.p)]
  /\ obj' = Adopt(obj, p)
  /\ last' = Op("SConstruct", 0, 0, <<>>)
  /\ UNCHANGED <<wp>>
  /\ UNCHANGED notShared

\* a copy that omits the fetch_add
CopyFromNoAdd(h, u, cn, other) ==
  {[h |-> k.h, u |-> k.u, cn |-> cn,
    self |-> Handle(other.ptr_, other.ref_count_, k.p)] :
     k \in FunctionCopyAssign(h, u, NULL, other.deleter_)}

\* the tail shared by the copy constructor and the copy assignment:
\* ptr_, ref_count_ and deleter_ are taken from other, then fetch_add.
\* The results are [h, u, cn, self].
CopyFrom(h, u, cn, other) ==
  {LET a == IF other.ref_count_ # NULL
              THEN FetchAdd(cn, k.u, other.ref_count_)
              ELSE [cn |-> cn, u |-> k.u]
   IN  [h |-> k.h, u |-> a.u, cn |-> a.cn,
        self |-> Handle(other.ptr_, other.ref_count_, k.p)] :
     k \in FunctionCopyAssign(h, u, NULL, other.deleter_)}

\* SharedPtr(const SharedPtr &other)
SCopyConstruct(d, s) ==
  /\ ~sp[d].alive
  /\ sp[s].alive
  /\ CanAlloc(hold)
  /\ \E r \in CopyFrom(hold, ub, cnt, sp[s]) :
       /\ hold' = r.h
       /\ ub' = r.u
       /\ cnt' = r.cn
       /\ sp' = [sp EXCEPT ![d] = r.self]
  /\ last' = Op("SCopyConstruct", 0, 0, <<>>)
  /\ UNCHANGED <<obj, wp>>
  /\ UNCHANGED notShared

\* a move that does not null the source
MoveFromKeepsSource(other) ==
  LET m == FunctionMove(other.deleter_)
  IN  [self |-> Handle(other.ptr_, other.ref_count_, m.dst),
       other |-> Handle(other.ptr_, other.ref_count_, m.src)]

\* the tail shared by the move constructor and the move assignment: the
\* results are [self, other]
MoveFrom(other) ==
  LET m == FunctionMove(other.deleter_)
  IN  [self |-> Handle(other.ptr_, other.ref_count_, m.dst),
       other |-> Handle(NULL, NULL, m.src)]

\* SharedPtr(SharedPtr &&other)
SMoveConstruct(d, s) ==
  /\ ~sp[d].alive
  /\ sp[s].alive
  /\ LET m == MoveFrom(sp[s])
     IN  sp' = [sp EXCEPT ![d] = m.self, ![s] = m.other]
  /\ last' = Op("SMoveConstruct", 0, 0, <<>>)
  /\ UNCHANGED <<hold, ub, obj, cnt, wp>>
  /\ UNCHANGED notShared

\* operator=(const SharedPtr &other)
SCopyAssign(d, s) ==
  /\ sp[d].alive
  /\ sp[s].alive
  /\ IF d # s
       THEN /\ CanAlloc(hold)
            /\ \E q \in Release(hold, ub, obj, cnt, sp[d], 0) :
                 \E r \in CopyFrom(q.h, q.u, q.cn, sp[s]) :
                   /\ hold' = r.h
                   /\ ub' = r.u
                   /\ cnt' = r.cn
                   /\ obj' = q.o
                   /\ sp' = [sp EXCEPT ![d] = r.self]
                   /\ last' = Op("SCopyAssign", 0, 0, <<>>)
       ELSE /\ UNCHANGED <<hold, ub, obj, cnt, sp>>
            /\ last' = Op("SCopyAssign", 0, 0, <<>>)
  /\ UNCHANGED <<wp>>
  /\ UNCHANGED notShared

\* operator=(SharedPtr &&other)
SMoveAssign(d, s) ==
  /\ sp[d].alive
  /\ sp[s].alive
  /\ IF d # s
       THEN \E q \in Release(hold, ub, obj, cnt, sp[d], 0) :
              LET m == MoveFrom(sp[s])
              IN  /\ hold' = q.h
                  /\ ub' = q.u
                  /\ cnt' = q.cn
                  /\ obj' = q.o
                  /\ sp' = [sp EXCEPT ![d] = m.self, ![s] = m.other]
                  /\ last' = Op("SMoveAssign", 0, 0, <<>>)
       ELSE /\ UNCHANGED <<hold, ub, obj, cnt, sp>>
            /\ last' = Op("SMoveAssign", 0, 0, <<>>)
  /\ UNCHANGED <<wp>>
  /\ UNCHANGED notShared

\* reset(T *ptr, Dt deleter)
SReset(x, p, c) ==
  /\ sp[x].alive
  /\ p \in FreshPointers(obj)
  /\ p # NULL => CanAlloc(hold) /\ CanAllocCounter(cnt)
  /\ \E q \in Release(hold, ub, obj, cnt, sp[x], 0) :
       /\ IF p # NULL
            THEN LET n == NewCounter(q.cn)
                     r == FromParameter(q.h, q.u, c)
                 IN  /\ hold' = r.h
                     /\ ub' = r.u
                     /\ cnt' = n.cn
                     /\ sp' = [sp EXCEPT ![x] = Handle(p, n.p, r.p)]
            ELSE /\ hold' = q.h
                 /\ ub' = q.u
                 /\ cnt' = q.cn
                 /\ sp' = [sp EXCEPT ![x] = Handle(NULL, NULL, sp[x].deleter_)]
       /\ obj' = Adopt(q.o, p)
       /\ last' = Op("SReset", 0, 0, <<>>)
  /\ UNCHANGED <<wp>>
  /\ UNCHANGED notShared

\* ~SharedPtr(): release(), then the member deleter_ is destroyed
SDestroy(x) ==
  /\ sp[x].alive
  /\ \E q \in Release(hold, ub, obj, cnt, sp[x], 0) :
       LET r == FunctionDestroy(q.h, q.u, sp[x].deleter_)
       IN  /\ hold' = r.h
           /\ ub' = r.u
           /\ cnt' = q.cn
           /\ obj' = q.o
           /\ last' = Op("SDestroy", 0, 0, <<>>)
  /\ sp' = [sp EXCEPT ![x] = DeadHandle]
  /\ UNCHANGED <<wp>>
  /\ UNCHANGED notShared

\* -------------------------------------------------------------- WeakPtr
Weak(p, c) == [alive |-> TRUE, ptr_ |-> p, ref_count_ |-> c]

DeadWeak == [alive |-> FALSE, ptr_ |-> NULL, ref_count_ |-> NULL]

\* WeakPtr()
WDefault(w) ==
  /\ ~wp[w].alive
  /\ wp' = [wp EXCEPT ![w] = Weak(NULL, NULL)]
  /\ last' = Op("WDefault", 0, 0, <<>>)
  /\ UNCHANGED <<hold, ub, obj, cnt, sp>>
  /\ UNCHANGED notShared

\* a WeakPtr that counts itself
WeakFromSharedCounting(cn, u, shared) ==
  [self |-> Weak(shared.ptr_, shared.ref_count_),
   cn |-> IF shared.ref_count_ # NULL THEN FetchAdd(cn, u, shared.ref_count_).cn ELSE cn]

\* WeakPtr(const SharedPtr<T> &sharedPtr): the fields and the counters after it
WeakFromShared(cn, u, shared) ==
  [self |-> Weak(shared.ptr_, shared.ref_count_), cn |-> cn]

WFromShared(w, x) ==
  /\ ~wp[w].alive
  /\ sp[x].alive
  /\ LET r == WeakFromShared(cnt, ub, sp[x])
     IN  /\ wp' = [wp EXCEPT ![w] = r.self]
         /\ cnt' = r.cn
  /\ last' = Op("WFromShared", 0, 0, <<>>)
  /\ UNCHANGED <<hold, ub, obj, sp>>
  /\ UNCHANGED notShared

\* WeakPtr(const WeakPtr &other)
WCopyConstruct(d, s) ==
  /\ ~wp[d].alive
  /\ wp[s].alive
  /\ wp' = [wp EXCEPT ![d] = Weak(wp[s].ptr_, wp[s].ref_count_)]
  /\ last' = Op("WCopyConstruct", 0, 0, <<>>)
  /\ UNCHANGED <<hold, ub, obj, cnt, sp>>
  /\ UNCHANGED notShared

\* WeakPtr(WeakPtr &&other)
WMoveConstruct(d, s) ==
  /\ ~wp[d].alive
  /\ wp[s].alive
  /\ wp' = [wp EXCEPT ![d] = Weak(wp[s].ptr_, wp[s].ref_count_), ![s] = Weak(NULL, NULL)]
  /\ last' = Op("WMoveConstruct", 0, 0, <<>>)
  /\ UNCHANGED <<hold, ub, obj, cnt, sp>>
  /\ UNCHANGED notShared

\* operator=(const WeakPtr &other)
WCopyAssign(d, s) ==
  /\ wp[d].alive
  /\ wp[s].alive
  /\ wp' = IF d # s THEN [wp EXCEPT ![d] = Weak(wp[s].ptr_, wp[s].ref_count_)] ELSE wp
  /\ last' = Op("WCopyAssign", 0, 0, <<>>)
  /\ UNCHANGED <<hold, ub, obj, cnt, sp>>
  /\ UNCHANGED notShared

\* operator=(WeakPtr &&other)
WMoveAssign(d, s) ==
  /\ wp[d].alive
  /\ wp[s].alive
  /\ wp' = IF d # s
             THEN [wp EXCEPT ![d] = Weak(wp[s].ptr_, wp[s].ref_count_), ![s] = Weak(NULL, NULL)]
             ELSE wp
  /\ last' = Op("WMoveAssign", 0, 0, <<>>)
  /\ UNCHANGED <<hold, ub, obj, cnt, sp>>
  /\ UNCHANGED notShared

\* swap(WeakPtr<T> &other)
WSwap(a, b) ==
  /\ wp[a].alive
  /\ wp[b].alive
  /\ wp' = [wp EXCEPT ![a] = wp[b], ![b] = wp[a]]
  /\ last' = Op("WSwap", 0, 0, <<>>)
  /\ UNCHANGED <<hold, ub, obj, cnt, sp>>
  /\ UNCHANGED notShared

\* ~WeakPtr(): implicit, nothing is released
WDestroy(w) ==
  /\ wp[w].alive
  /\ wp' = [wp EXCEPT ![w] = DeadWeak]
  /\ last' = Op("WDestroy", 0, 0, <<>>)
  /\ UNCHANGED <<hold, ub, obj, cnt, sp>>
  /\ UNCHANGED notShared

\* expired(): the results are [u, v], v the value returned
Expired(cn, u, self) ==
  IF self.ref_count_ = NULL THEN {[u |-> u, v |-> TRUE]}
  ELSE {[u |-> l.u, v |-> (l.v = 0)] : l \in Load(cn, u, self.ref_count_)}

WExpired(w) ==
  /\ wp[w].alive
  /\ \E r \in Expired(cnt, ub, wp[w]) :
       /\ ub' = r.u
       /\ last' = Op("WExpired", w, IF r.v THEN 1 ELSE 0, <<>>)
  /\ UNCHANGED <<hold, obj, cnt, sp, wp>>
  /\ UNCHANGED notShared

\* The first half of lock(): ref_count_ && ref_count_->load() > 0.  The
\* results are [u, v], v whether the SharedPtr is to be made from *this.
LockCheck(cn, u, self) ==
  IF self.ref_count_ = NULL THEN {[u |-> u, v |-> FALSE]}
  ELSE {[u |-> l.u, v |-> (l.v > 0)] : l \in Load(cn, u, self.ref_count_)}

\* SharedPtr<T>(*this) in lock(): the handle made from a WeakPtr shares its
\* pointee and counter and counts itself; the WeakPtr carries no destroyer,
\* so the handle has the default one.  The results are [h, u, cn, self].
SharedFromWeak(h, u, cn, weak) ==
  LET k == NewHolder(h, u, "delete")
      a == FetchAdd(cn, k.u, weak.ref_count_)
  IN  [h |-> k.h, u |-> a.u, cn |-> a.cn, self |-> Handle(weak.ptr_, weak.ref_count_, k.p)]

\* SharedPtr<T>() in lock()
SharedEmpty(h, u, cn) ==
  LET k == NewHolder(h, u, "delete")
  IN  [h |-> k.h, u |-> k.u, cn |-> cn, self |-> Handle(NULL, NULL, k.p)]

\* lock(): the returned SharedPtr is constructed in place in the object d
WLock(w, d) ==
  /\ wp[w].alive
  /\ ~sp[d].alive
  /\ CanAlloc(hold)
  /\ \E l \in LockCheck(cnt, ub, wp[w]) :
       LET r == IF l.v THEN SharedFromWeak(hold, l.u, cnt, wp[w])
                       ELSE SharedEmpty(hold, l.u, cnt)
       IN  /\ hold' = r.h
           /\ ub' = r.u
           /\ cnt' = r.cn
           /\ sp' = [sp EXCEPT ![d] = r.self]
  /\ last' = Op("WLock", w, d, <<>>)
  /\ UNCHANGED <<obj, wp>>
  /\ UNCHANGED notShared

\* ------------------------------------- the sequential SharedPtr program
InitShared ==
  /\ hold = HolderInit(HAddr)
  /\ obj = ObjInit
  /\ ub = {}
  /\ fns = FnsInit
  /\ up = UpInit
  /\ cnt = CntInit
  /\ sp = SpInit
  /\ wp = WpInit
  /\ pc = PcInit
  /\ hist = HistInit
  /\ last = Op("init", 0, 0, <<>>)
  /\ any = AnyInit
  /\ box = BoxInit

NextShared ==
  \/ \E x \in SSlots : SDefault(x)
  \/ \E x \in SSlots, p \in {NULL} \cup PAddr, c \in Callables : SConstruct(x, p, c)
  \/ \E d, s \in SSlots : SCopyConstruct(d, s)
  \/ \E d, s \in SSlots : SMoveConstruct(d, s)
  \/ \E d, s \in SSlots : SCopyAssign(d, s)
  \/ \E d, s \in SSlots : SMoveAssign(d, s)
  \/ \E x \in SSlots, p \in {NULL} \cup PAddr, c \in Callables : SReset(x, p, c)
  \/ \E x \in SSlots : SDestroy(x)

SpecShared == InitShared /\ [][NextShared]_vars

\* --------------- the sequential program of WeakPtr observers of SharedPtr
NextWeak ==
  \/ \E x \in SSlots, p \in {NULL} \cup PAddr, c \in Callables : SConstruct(x, p, c)
  \/ \E d, s \in SSlots : SCopyConstruct(d, s)
  \/ \E x \in SSlots : SDestroy(x)
  \/ \E w \in WSlots : WDefault(w)
  \/ \E w \in WSlots, x \in SSlots : WFromShared(w, x)
  \/ \E d, s \in WSlots : WCopyConstruct(d, s)
  \/ \E d, s \in WSlots : WMoveConstruct(d, s)
  \/ \E d, s \in WSlots : WCopyAssign(d, s)
  \/ \E d, s \in WSlots : WMoveAssign(d, s)
  \/ \E a, b \in WSlots : WSwap(a, b)
  \/ \E w \in WSlots : WDestroy(w)
  \/ \E w \in WSlots : WExpired(w)
  \/ \E w \in WSlots, d \in SSlots : WLock(w, d)

SpecWeak == InitShared /\ [][NextWeak]_vars

\* ------------------------------------------- the concurrent program
\* Every thread owns its SharedPtr objects and one WeakPtr; the threads
\* share the counters and the pointees.  One step is one access to shared
\* memory together with the thread-private code before it.
CSlots == 1..(2 * NumThreads)

Owner(x) == ((x - 1) % NumThreads) + 1

CHolders == 1..(NumThreads + 1 + NumThreads * OpsPerThread)

\* the main thread made a SharedPtr to object 1 with a logging destroyer and
\* one copy of it per thread; thread 1 also made a SharedPtr to object 2
InitConcurrent ==
  /\ hold = [a \in CHolders |->
               IF a <= NumThreads THEN [st |-> "live", fn |-> "log", dels |-> 0]
               ELSE IF a = NumThreads + 1 THEN [st |-> "live", fn |-> "delete", dels |-> 0]
               ELSE [st |-> "unalloc", fn |-> "none", dels |-> 0]]
  /\ obj = [p \in PAddr |-> IF p <= 2 THEN [st |-> "adopted", log |-> <<>>] ELSE ObjInit[p]]
  /\ ub = {}
  /\ fns = FnsInit
  /\ up = UpInit
  /\ cnt = [a \in CAddr |->
              IF a = 1 THEN [st |-> "live", val |-> NumThreads]
              ELSE IF a = 2 THEN [st |-> "live", val |-> 1]
              ELSE CntInit[a]]
  /\ sp = [x \in CSlots |->
             IF x <= NumThreads THEN Handle(1, 1, x)
             ELSE IF x = NumThreads + 1 THEN Handle(2, 2, x)
             ELSE DeadHandle]
  /\ wp = [t \in Threads |-> DeadWeak]
  /\ pc = PcInit
  /\ hist = HistInit
  /\ last = Op("init", 0, 0, <<>>)
  /\ any = AnyInit
  /\ box = BoxInit

IdleThread(t) == pc[t].run.at = "idle" /\ pc[t].begun < OpsPerThread

Begin(t, r) == [pc EXCEPT ![t] = [run |-> r, begun |-> pc[t].begun + 1]]

Goto(t, r) == [pc EXCEPT ![t].run = r]

\* the first step of release() of the handle x, as part of the operation op
\* with the other operand y: if (ref_count_) fetch_sub
ReleaseBegin(t, op, x, y) ==
  /\ IdleThread(t)
  /\ Owner(x) = t
  /\ sp[x].alive
  /\ IF sp[x].ref_count_ = NULL
       THEN /\ pc' = Begin(t, [at |-> "fin", op |-> op, x |-> x, y |-> y])
            /\ UNCHANGED <<cnt, ub, hist>>
       ELSE \E f \in FetchSub(cnt, ub, sp[x].ref_count_) :
              /\ cnt' = f.cn
              /\ ub' = f.u
              /\ IF ObservedLast(f.old)
                   THEN /\ pc' = Begin(t, [at |-> "call", op |-> op, x |-> x, y |-> y])
                        /\ hist' = [hist EXCEPT ![sp[x].ref_count_].sawOne = @ \cup {t}]
                   ELSE /\ pc' = Begin(t, [at |-> "fin", op |-> op, x |-> x, y |-> y])
                        /\ UNCHANGED hist
  /\ last' = Op("step", 0, 0, <<>>)
  /\ UNCHANGED <<hold, obj, sp, wp>>
  /\ UNCHANGED notSequential

\* ~SharedPtr() begins
TDestroy(t, x) == ReleaseBegin(t, "destroy", x, 0)

\* reset() begins
TReset(t, x) == ReleaseBegin(t, "reset", x, 0)

\* operator=(const SharedPtr &other) begins, this != &other
TCopyAssign(t, d, s) ==
  /\ d # s
  /\ Owner(s) = t
  /\ sp[s].alive
  /\ ReleaseBegin(t, "assign", d, s)

\* release(): deleter_(ptr_)
TCall(t) ==
  /\ pc[t].run.at = "call"
  /\ LET x == pc[t].run.x
     IN  \E i \in InvokeDeleter(hold, ub, obj, sp[x].deleter_, sp[x].ptr_, t) :
           /\ ub' = i.u
           /\ obj' = i.o
  /\ pc' = Goto(t, [pc[t].run EXCEPT !.at = "free"])
  /\ last' = Op("step", 0, 0, <<>>)
  /\ UNCHANGED <<hold, cnt, sp, wp, hist>>
  /\ UNCHANGED notSequential

\* release(): delete ref_count_
TFree(t) ==
  /\ pc[t].run.at = "free"
  /\ LET c == sp[pc[t].run.x].ref_count_
         d == DeleteCounter(cnt, ub, c)
     IN  /\ cnt' = d.cn
         /\ ub' = d.u
         /\ hist' = [hist EXCEPT ![c].freedBy = @ \cup {t}]
  /\ pc' = Goto(t, [pc[t].run EXCEPT !.at = "fin"])
  /\ last' = Op("step", 0, 0, <<>>)
  /\ UNCHANGED <<hold, obj, sp, wp>>
  /\ UNCHANGED notSequential

\* what follows release() in the destructor, in reset() and in the copy
\* assignment
TFinish(t) ==
  /\ pc[t].run.at = "fin"
  /\ LET x == pc[t].run.x
         y == pc[t].run.y
     IN  CASE pc[t].run.op = "destroy" ->
                LET r == FunctionDestroy(hold, ub, sp[x].deleter_)
                IN  /\ hold' = r.h
                    /\ ub' = r.u
                    /\ sp' = [sp EXCEPT ![x] = DeadHandle]
                    /\ UNCHANGED cnt
           [] pc[t].run.op = "reset" ->
                /\ sp' = [sp EXCEPT ![x] = Handle(NULL, NULL, sp[x].deleter_)]
                /\ UNCHANGED <<hold, ub, cnt>>
           [] pc[t].run.op = "assign" ->
                \E r \in CopyFrom(hold, ub, cnt, sp[y]) :
                  /\ hold' = r.h
                  /\ ub' = r.u
                  /\ cnt' = r.cn
                  /\ sp' = [sp EXCEPT ![x] = r.self]
  /\ pc' = Goto(t, Idle)
  /\ last' = Op("step", 0, 0, <<>>)
  /\ UNCHANGED <<obj, wp, hist>>
  /\ UNCHANGED notSequential

\* SharedPtr(const SharedPtr &other)
TCopyConstruct(t, d, s) ==
  /\ IdleThread(t)
  /\ Owner(d) = t /\ Owner(s) = t
  /\ ~sp[d].alive
  /\ sp[s].alive
  /\ \E r \in CopyFrom(hold, ub, cnt, sp[s]) :
       /\ hold' = r.h
       /\ ub' = r.u
       /\ cnt' = r.cn
       /\ sp' = [sp EXCEPT ![d] = r.self]
  /\ pc' = Begin(t, Idle)
  /\ last' = Op("step", 0, 0, <<>>)
  /\ UNCHANGED <<obj, wp, hist>>
  /\ UNCHANGED notSequential

NextRelease ==
  \/ \E t \in Threads, x \in CSlots : TDestroy(t, x)
  \/ \E t \in Threads, x \in CSlots : TReset(t, x)
  \/ \E t \in Threads, d, s \in CSlots : TCopyAssign(t, d, s)
  \/ \E t \in Threads, d, s \in CSlots : TCopyConstruct(t, d, s)
  \/ \E t \in Threads : TCall(t)
  \/ \E t \in Threads : TFree(t)
  \/ \E t \in Threads : TFinish(t)

SpecRelease == InitConcurrent /\ [][NextRelease]_vars

\* WeakPtr(const SharedPtr<T> &sharedPtr) into the thread's WeakPtr
TWeak(t, x) ==
  /\ IdleThread(t)
  /\ Owner(x) = t
  /\ sp[x].alive
  /\ ~wp[t].alive
  /\ LET r == WeakFromShared(cnt, ub, sp[x])
     IN  /\ wp' = [wp EXCEPT ![t] = r.self]
         /\ cnt' = r.cn
  /\ pc' = Begin(t, Idle)
  /\ last' = Op("step", 0, 0, <<>>)
  /\ UNCHANGED <<hold, obj, ub, sp, hist>>
  /\ UNCHANGED notSequential

\* lock() begins: ref_count_ && ref_count_->load() > 0; the SharedPtr
\* returned will be the object d
TLockCheck(t, d) ==
  /\ IdleThread(t)
  /\ Owner(d) = t
  /\ ~sp[d].alive
  /\ wp[t].alive
  /\ \E l \in LockCheck(cnt, ub, wp[t]) :
       IF l.v
         THEN /\ ub' = l.u
              /\ pc' = Begin(t, [at |-> "make", op |-> "lock", x |-> d, y |-> 0])
              /\ last' = Op("step", 0, 0, <<>>)
              /\ UNCHANGED <<hold, sp>>
         ELSE LET r == SharedEmpty(hold, l.u, cnt)
              IN  /\ hold' = r.h
                  /\ ub' = r.u
                  /\ sp' = [sp EXCEPT ![d] = r.self]
                  /\ pc' = Begin(t, Idle)
                  /\ last' = Op("WLock", t, d, <<>>)
  /\ UNCHANGED <<obj, cnt, wp, hist>>
  /\ UNCHANGED notSequential

\* lock() ends: return SharedPtr<T>(*this)
TLockMake(t) ==
  /\ pc[t].run.at = "make"
  /\ LET d == pc[t].run.x
         r == SharedFromWeak(hold, ub, cnt, wp[t])
     IN  /\ hold' = r.h
         /\ ub' = r.u
         /\ cnt' = r.cn
         /\ sp' = [sp EXCEPT ![d] = r.self]
         /\ last' = Op("WLock", t, d, <<>>)
  /\ pc' = Goto(t, Idle)
  /\ UNCHANGED <<obj, wp, hist>>
  /\ UNCHANGED notSequential

NextLock ==
  \/ \E t \in Threads, x \in CSlots : TDestroy(t, x)
  \/ \E t \in Threads : TCall(t)
  \/ \E t \in Threads : TFree(t)
  \/ \E t \in Threads : TFinish(t)
  \/ \E t \in Threads, x \in CSlots : TWeak(t, x)
  \/ \E t \in Threads, d \in CSlots : TLockCheck(t, d)
  \/ \E t \in Threads : TLockMake(t)

SpecLock == InitConcurrent /\ [][NextLock]_vars

\* ------------------------------------------- invoking Function objects
\* a callable with captured state: a mutable lambda that captures a flag by
\* value and sets it when it is invoked
Stateful == {"flag0", "flag1"}

\* the callables the Function program wraps
FnCallables == {"log", "flag0"}

\* the callable held after one invocation of callable_(args...)
AfterCall(c) == IF c = "flag0" THEN "flag1" ELSE c

\* operator()(args...) with its effect on the holder: the results are
\* [h, u, c], c as in FunctionCall
FunctionInvoke(h, u, p) ==
  {[h |-> IF IsHolder(h, p) /\ h[p].st = "live" THEN [h EXCEPT ![p].fn = AfterCall(@)] ELSE h,
    u |-> r.u, c |-> r.c] : r \in FunctionCall(h, u, p)}

FnCall(f) ==
  /\ fns[f].alive
  /\ \E r \in FunctionInvoke(hold, ub, fns[f].callable_) :
       /\ hold' = r.h
       /\ ub' = r.u
       /\ last' = Op("FnCall", f, 0, <<[fn |-> r.c, ptr |-> NULL]>>)
  /\ UNCHANGED fns
  /\ UNCHANGED notFunction

NextCall ==
  \/ \E f \in FnSlots, c \in FnCallables : FnConstruct(f, c)
  \/ \E f \in FnSlots : FnDefault(f)
  \/ \E d, s \in FnSlots : FnCopyConstruct(d, s)
  \/ \E d, s \in FnSlots : FnMoveConstruct(d, s)
  \/ \E d, s \in FnSlots : FnCopyAssign(d, s)
  \/ \E d, s \in FnSlots : FnMoveAssign(d, s)
  \/ \E f \in FnSlots : FnDestroy(f)
  \/ \E f \in FnSlots : FnCall(f)

SpecCall == InitFn /\ [][NextCall]_vars

\* ------------------------------------------------------------------ Any
\* the types T of the values wrapped, their values, and the value T{}
Types == {"int", "string"}

Values == [int |-> {"0", "7"}, string |-> {"", "ab"}]

ValueInit == [int |-> "0", string |-> ""]

AnyHolders == 1..MaxAnyHolders

CanAllocTwo(h) == Cardinality({a \in DOMAIN h : h[a].st = "unalloc"}) >= 2

CanAllocBox(b) == \E a \in DOMAIN b : b[a].st = "unalloc"

FreshBox(b) ==
  CHOOSE a \in DOMAIN b :
    b[a].st = "unalloc" /\ \A c \in DOMAIN b : c < a => b[c].st # "unalloc"

\* new Holder<T>(value): the result is [b, p]
NewBox(b, T, v) ==
  LET a == FreshBox(b)
  IN  [b |-> [b EXCEPT ![a] = [st |-> "live", type |-> T, held |-> v, dels |-> 0]], p |-> a]

\* Holder<T>::clone(): new Holder(T{})
CloneBox(b, p) == NewBox(b, b[p].type, ValueInit[b[p].type])

\* DefaultDeleter: delete ptr, on the Placeholder pointer p
DeleteBox(b, u, p) ==
  IF p = NULL THEN [b |-> b, u |-> u]
  ELSE IF b[p].st = "live" THEN [b |-> [b EXCEPT ![p].st = "freed", ![p].dels = 1], u |-> u]
  ELSE [b |-> [b EXCEPT ![p].dels = 2], u |-> u \cup {"box_double_delete"}]

\* deleter_(ptr_) of content_: the results are [u, b, c], c the callable
\* that ran
InvokeBoxDeleter(h, u, b, self) ==
  {IF r.c = "delete"
     THEN LET d == DeleteBox(b, r.u, self.ptr_) IN [u |-> d.u, b |-> d.b, c |-> r.c]
     ELSE [u |-> r.u, b |-> b, c |-> r.c] :
   r \in FunctionCall(h, u, self.deleter_)}

\* UniquePtr<Placeholder> content_, default-initialised:
\* UniquePtr(nullptr, DefaultDeleter()).  The result is [h, u, self].
ContentDefault(h, u) ==
  LET k == FromParameter(h, u, "delete")
  IN  [h |-> k.h, u |-> k.u, self |-> [ptr_ |-> NULL, deleter_ |-> k.p]]

\* content_.reset(p): deleter_(ptr_); ptr_ = p; deleter_ = DefaultDeleter().
\* The results are [h, u, b, self].
ContentReset(h, u, b, self, p) ==
  {LET k == FromParameter(h, i.u, "delete")
   IN  [h |-> k.h, u |-> k.u, b |-> i.b, self |-> [ptr_ |-> p, deleter_ |-> k.p]] :
     i \in InvokeBoxDeleter(h, u, b, self)}

\* ~UniquePtr() of content_: deleter_(ptr_), then ~Function().  The results
\* are [h, u, b].
ContentDestroy(h, u, b, self) ==
  {LET r == FunctionDestroy(h, i.u, self.deleter_)
   IN  [h |-> r.h, u |-> r.u, b |-> i.b] :
     i \in InvokeBoxDeleter(h, u, b, self)}

\* std::swap(deleter_, other.deleter_): Function tmp(std::move(a));
\* a = std::move(b); b = std::move(tmp); and tmp is destroyed.  The result is
\* [h, u, a, b], the two callable_ pointers after it.
SwapFunction(h, u, a, b) ==
  LET tmp == FunctionMove(a).dst
      a1 == FunctionMove(b).dst
      b1 == FunctionMove(tmp).dst
      r == FunctionDestroy(h, u, tmp)
  IN  [h |-> r.h, u |-> r.u, a |-> a1, b |-> b1]

\* UniquePtr::swap on the fields self and other: the result is
\* [h, u, self, other]
UniqueSwap(h, u, self, other) ==
  LET w == SwapFunction(h, u, self.deleter_, other.deleter_)
  IN  [h |-> w.h, u |-> w.u,
       self |-> [ptr_ |-> other.ptr_, deleter_ |-> w.a],
       other |-> [ptr_ |-> self.ptr_, deleter_ |-> w.b]]

Content(x) == [ptr_ |-> x.ptr_, deleter_ |-> x.deleter_]

AnyOf(c) == [alive |-> TRUE, ptr_ |-> c.ptr_, deleter_ |-> c.deleter_]

DeadAny == [alive |-> FALSE, ptr_ |-> NULL, deleter_ |-> NULL]

\* Any(): content_ is default-initialised
AnyDefault(a) ==
  /\ ~any[a].alive
  /\ CanAlloc(hold)
  /\ LET c == ContentDefault(hold, ub)
     IN  /\ hold' = c.h
         /\ ub' = c.u
         /\ any' = [any EXCEPT ![a] = AnyOf(c.self)]
  /\ last' = Op("AnyDefault", a, 0, <<>>)
  /\ UNCHANGED box
  /\ UNCHANGED notAny

\* Any(T &&t) with the rvalue v of type T:
\* content_.reset(new Holder<T>(std::forward<T>(t)))
AnyFromValue(a, T, v) ==
  /\ ~any[a].alive
  /\ CanAllocTwo(hold)
  /\ CanAllocBox(box)
  /\ LET c == ContentDefault(hold, ub)
         n == NewBox(box, T, v)
     IN  \E r \in ContentReset(c.h, c.u, n.b, c.self, n.p) :
           /\ hold' = r.h
           /\ ub' = r.u
           /\ box' = r.b
           /\ any' = [any EXCEPT ![a] = AnyOf(r.self)]
  /\ last' = Op("AnyFromValue", a, 0, <<>>)
  /\ UNCHANGED notAny

\* the body of Any(const Any &other) on a default-initialised content_: the
\* results are [h, u, b, self]
AnyCopy(h, u, b, other) ==
  LET c == ContentDefault(h, u)
  IN  IF other.ptr_ # NULL
        THEN LET n == CloneBox(b, other.ptr_)
             IN  ContentReset(c.h, c.u, n.b, c.self, n.p)
        ELSE {[h |-> c.h, u |-> c.u, b |-> b, self |-> c.self]}

\* Any(const Any &other)
AnyCopyConstruct(d, s) ==
  /\ ~any[d].alive
  /\ any[s].alive
  /\ CanAllocTwo(hold)
  /\ CanAllocBox(box)
  /\ \E r \in AnyCopy(hold, ub, box, Content(any[s])) :
       /\ hold' = r.h
       /\ ub' = r.u
       /\ box' = r.b
       /\ any' = [any EXCEPT ![d] = AnyOf(r.self)]
  /\ last' = Op("AnyCopyConstruct", d, s, <<>>)
  /\ UNCHANGED notAny

\* operator=(const Any &other): Any temp(other); content_.swap(temp.content_);
\* then temp is destroyed
AnyCopyAssign(d, s) ==
  /\ any[d].alive
  /\ any[s].alive
  /\ IF d # s
       THEN /\ CanAllocTwo(hold)
            /\ CanAllocBox(box)
            /\ \E t \in AnyCopy(hold, ub, box, Content(any[s])) :
                 LET w == UniqueSwap(t.h, t.u, Content(any[d]), t.self)
                 IN  \E r \in ContentDestroy(w.h, w.u, t.b, w.other) :
                       /\ hold' = r.h
                       /\ ub' = r.u
                       /\ box' = r.b
                       /\ any' = [any EXCEPT ![d] = AnyOf(w.self)]
       ELSE UNCHANGED <<hold, ub, box, any>>
  /\ last' = Op("AnyCopyAssign", d, s, <<>>)
  /\ UNCHANGED notAny

\* ~Any()
AnyDestroy(a) ==
  /\ any[a].alive
  /\ \E r \in ContentDestroy(hold, ub, box, Content(any[a])) :
       /\ hold' = r.h
       /\ ub' = r.u
       /\ box' = r.b
  /\ any' = [any EXCEPT ![a] = DeadAny]
  /\ last' = Op("AnyDestroy", a, 0, <<>>)
  /\ UNCHANGED notAny

\* a dynamic_cast that does not look at the dynamic type
DynamicCastUnchecked(b, p, U) == p

\* dynamic_cast<Holder<U> *>(holder): the pointer when the object is a
\* Holder<U>, null otherwise
DynamicCast(b, p, U) == IF b[p].type = U THEN p ELSE NULL

\* cast<U>(): the result is [fn, ptr]: "value" and the address of the held
\* member the reference binds to, or "throw"
Cast(b, self, U) ==
  IF self.ptr_ # NULL /\ DynamicCast(b, self.ptr_, U) # NULL
    THEN [fn |-> "value", ptr |-> DynamicCast(b, self.ptr_, U)]
    ELSE [fn |-> "throw", ptr |-> NULL]

AnyCast(a, U) ==
  /\ any[a].alive
  /\ last' = Op("AnyCast", a, U, <<Cast(box, Content(any[a]), U)>>)
  /\ UNCHANGED <<hold, ub, box, any>>
  /\ UNCHANGED notAny

\* cast<U>() = v: an assignment through the reference returned
AnyAssignValue(a, U, v) ==
  /\ any[a].alive
  /\ LET r == Cast(box, Content(any[a]), U)
     IN  /\ box' = IF r.fn = "value" THEN [box EXCEPT ![r.ptr].held = v] ELSE box
         /\ last' = Op("AnyAssignValue", a, U, <<r>>)
  /\ UNCHANGED <<hold, ub, any>>
  /\ UNCHANGED notAny

InitAny ==
  /\ hold = HolderInit(AnyHolders)
  /\ obj = ObjInit
  /\ ub = {}
  /\ fns = FnsInit
  /\ up = UpInit
  /\ cnt = CntInit
  /\ sp = SpInit
  /\ wp = WpInit
  /\ pc = PcInit
  /\ hist = HistInit
  /\ any = AnyInit
  /\ box = BoxInit
  /\ last = Op("init", 0, 0, <<>>)

NextAny ==
  \/ \E a \in ASlots : AnyDefault(a)
  \/ \E a \in ASlots, T \in Types : \E v \in Values[T] : AnyFromValue(a, T, v)
  \/ \E d, s \in ASlots : AnyCopyConstruct(d, s)
  \/ \E d, s \in ASlots : AnyCopyAssign(d, s)
  \/ \E a \in ASlots : AnyDestroy(a)
  \/ \E a \in ASlots, U \in Types : AnyCast(a, U)
  \/ \E a \in ASlots, U \in Types : \E v \in Values[U] : AnyAssignValue(a, U, v)

SpecAny == InitAny /\ [][NextAny]_vars

\* ------------------------------------------ SharedPtr with set_deleter
\* set_deleter(Dt deleter): deleter_ = deleter
SSetDeleter(x, c) ==
  /\ sp[x].alive
  /\ CanAlloc(hold)
  /\ LET r == FromParameter(hold, ub, c)
     IN  /\ hold' = r.h
         /\ ub' = r.u
         /\ sp' = [sp EXCEPT ![x].deleter_ = r.p]
  /\ last' = Op("SSetDeleter", 0, 0, <<>>)
  /\ UNCHANGED <<obj, cnt, wp>>
  /\ UNCHANGED notShared

NextDeleter ==
  \/ \E x \in SSlots, p \in {NULL} \cup PAddr, c \in Callables : SConstruct(x, p, c)
  \/ \E d, s \in SSlots : SCopyConstruct(d, s)
  \/ \E d, s \in SSlots : SMoveConstruct(d, s)
  \/ \E x \in SSlots, c \in Callables : SSetDeleter(x, c)
  \/ \E x \in SSlots : SDestroy(x)

SpecDeleter == InitShared /\ [][NextDeleter]_vars

\* ------------------------------------------------ UniquePtr with swap
\* swap(UniquePtr<T> &other)
USwap(a, b) ==
  /\ up[a].alive
  /\ up[b].alive
  /\ LET w == UniqueSwap(hold, ub, Content(up[a]), Content(up[b]))
     IN  /\ hold' = w.h
         /\ ub' = w.u
         /\ up' = [up EXCEPT ![a] = [alive |-> TRUE, ptr_ |-> w.self.ptr_, deleter_ |-> w.self.deleter_],
                              ![b] = [alive |-> TRUE, ptr_ |-> w.other.ptr_, deleter_ |-> w.other.deleter_]]
  /\ last' = Op("USwap", a, b, <<>>)
  /\ UNCHANGED obj
  /\ UNCHANGED notUnique

NextSwap ==
  \/ \E x \in USlots, p \in {NULL} \cup PAddr, c \in Callables : UConstruct(x, p, c)
  \/ \E a, b \in USlots : USwap(a, b)
  \/ \E x \in USlots : UDestroy(x)

SpecSwap == InitUnique /\ [][NextSwap]_vars

\* ======================================================== the claims
Quiescent == \A t \in Threads : pc[t].run.at = "idle"

\* the handle x shares the counter c: it is alive, points to c and no thread
\* is past the fetch_sub of a release() of x
Sharing(x, c) ==
  /\ sp[x].alive
  /\ sp[x].ref_count_ = c
  /\ \A t \in Threads : pc[t].run.at \in {"call", "free", "fin"} => pc[t].run.x # x

\* in the concurrent program object p is counted by counter p
Counted == {p \in PAddr : obj[p].st = "adopted"}

\* C1: under every interleaving of copy constructions, copy assignments,
\* resets and destructions by the threads, the destroyer runs on a pointee
\* at most once and the counter is deleted at most once, both only in the
\* one thread whose fetch_sub returned 1 and never while a SharedPtr still
\* shares the counter; once no SharedPtr shares the counter and no operation
\* is in progress, the destroyer has run exactly once and the counter is
\* deleted.
C1_DestroyedExactlyOnce ==
  /\ "counter_double_delete" \notin ub
  /\ \A p \in Counted :
       /\ Len(obj[p].log) <= 1
       /\ Cardinality(hist[p].sawOne) <= 1
       /\ hist[p].freedBy \subseteq hist[p].sawOne
       /\ \A i \in 1..Len(obj[p].log) : obj[p].log[i].t \in hist[p].sawOne
       /\ obj[p].log # <<>> => \A x \in CSlots : ~Sharing(x, p)
       /\ cnt[p].st = "freed" => \A x \in CSlots : ~Sharing(x, p)
       /\ (Quiescent /\ \A x \in CSlots : ~Sharing(x, p))
            => Len(obj[p].log) = 1 /\ cnt[p].st = "freed" /\ hist[p].freedBy # {}

\* C1 witness: copies were made, every handle has been released by its
\* thread, and the last release of object 1 happened in thread 2
C1_Witness ==
  /\ Quiescent
  /\ \A x \in CSlots : ~sp[x].alive
  /\ \E a \in DOMAIN hold : a > NumThreads + 1 /\ hold[a].st # "unalloc"
  /\ obj[1].log = <<[fn |-> "log", t |-> 2]>>
  /\ Len(obj[2].log) = 1
  /\ cnt[1].st = "freed"

\* C2: lock() never increments a counter that has reached zero or has been
\* deleted, and the SharedPtr it returns is empty or points to a pointee on
\* which no destroyer has run.
C2_LockNeverRevives ==
  /\ "increment_from_zero" \notin ub
  /\ "increment_after_free" \notin ub
  /\ last.op = "WLock" =>
       (sp[last.b].ptr_ # NULL => obj[sp[last.b].ptr_].log = <<>>)

\* the live SharedPtr objects whose ref_count_ is the counter c
Sharers(c) == {x \in DOMAIN sp : sp[x].alive /\ sp[x].ref_count_ = c}

\* C3: between operations the value of every allocated counter is the number
\* of live SharedPtr objects whose ref_count_ points to it, and no live
\* SharedPtr points to a deleted counter.
C3_CountIsNumberOfHandles ==
  /\ \A c \in CAddr : cnt[c].st = "live" => cnt[c].val = Cardinality(Sharers(c))
  /\ \A x \in SSlots : sp[x].alive /\ sp[x].ref_count_ # NULL => cnt[sp[x].ref_count_].st = "live"

\* C3 witness: a copy has just been made and two handles share a counter of 2
C3_Witness ==
  /\ last.op = "SCopyConstruct"
  /\ \E c \in CAddr : cnt[c].st = "live" /\ cnt[c].val = 2 /\ Cardinality(Sharers(c)) = 2

\* C4: once the last SharedPtr of a counter is gone (the counter has been
\* deleted), expired() of a WeakPtr made for it returns true and lock()
\* returns an empty SharedPtr.
C4_ExpiredAfterLastOwner ==
  /\ (/\ last.op = "WExpired"
      /\ wp[last.a].ref_count_ # NULL
      /\ cnt[wp[last.a].ref_count_].st = "freed") => last.b = 1
  /\ (/\ last.op = "WLock"
      /\ wp[last.a].ref_count_ # NULL
      /\ cnt[wp[last.a].ref_count_].st = "freed")
       => sp[last.b].ptr_ = NULL /\ sp[last.b].ref_count_ = NULL

\* lock() of w into d with a SharedPtr of the referent alive
LockOfLive(w, d) ==
  /\ WLock(w, d)
  /\ wp[w].ref_count_ # NULL
  /\ cnt[wp[w].ref_count_].st = "live"
  /\ cnt[wp[w].ref_count_].val > 0

WeakStep ==
  \/ \E w \in WSlots, x \in SSlots : WFromShared(w, x)
  \/ \E d, s \in WSlots :
       WCopyConstruct(d, s) \/ WMoveConstruct(d, s) \/ WCopyAssign(d, s)
         \/ WMoveAssign(d, s) \/ WSwap(d, s)
  \/ \E w \in WSlots : WDestroy(w)

\* C6: making a WeakPtr from a SharedPtr, copying, moving, assigning,
\* swapping and destroying a WeakPtr change no counter and no pointee.
C6_WeakLeavesCounter == [][WeakStep => cnt' = cnt /\ obj' = obj /\ sp' = sp]_vars

\* C6 witness: a WeakPtr has just been made from a SharedPtr whose counter
\* is allocated and positive
C6_Witness ==
  /\ last.op = "WFromShared"
  /\ \E w \in WSlots :
       /\ wp[w].alive /\ wp[w].ref_count_ # NULL
       /\ cnt[wp[w].ref_count_].st = "live" /\ cnt[wp[w].ref_count_].val >= 1

\* C7 as claimed: a move construction or move assignment leaves the counter
\* of the source unchanged, gives the destination the pointee and counter of
\* the source and leaves the source with null pointer and null counter.
C7_MoveKeepsCounter ==
  [][\A d, s \in SSlots :
       (SMoveConstruct(d, s) \/ SMoveAssign(d, s)) =>
         /\ sp[s].ref_count_ # NULL => cnt'[sp[s].ref_count_] = cnt[sp[s].ref_count_]
         /\ sp'[d].ptr_ = sp[s].ptr_
         /\ sp'[d].ref_count_ = sp[s].ref_count_
         /\ sp'[s].ptr_ = NULL
         /\ sp'[s].ref_count_ = NULL]_vars

\* C7 amended: a move construction, or a move assignment between two
\* distinct objects, gives the destination the pointee and counter of the
\* source and leaves the source with null pointer and null counter; the
\* counter keeps its value, or drops by exactly 1 when the destination of
\* the assignment shared that counter before; a move assignment of an object
\* to itself changes nothing; the destruction of an object whose counter is
\* null changes no counter and runs no destroyer.
C7_MoveTransfers ==
  [][/\ \A d, s \in SSlots :
          (SMoveConstruct(d, s) \/ (d # s /\ SMoveAssign(d, s))) =>
            /\ sp[s].ref_count_ # NULL =>
                 cnt'[sp[s].ref_count_] =
                   [st |-> "live",
                    val |-> cnt[sp[s].ref_count_].val
                              - (IF d \in Sharers(sp[s].ref_count_) THEN 1 ELSE 0)]
            /\ sp'[d].ptr_ = sp[s].ptr_
            /\ sp'[d].ref_count_ = sp[s].ref_count_
            /\ sp'[s].alive
            /\ sp'[s].ptr_ = NULL
            /\ sp'[s].ref_count_ = NULL
     /\ \A x \in SSlots : SMoveAssign(x, x) => sp' = sp /\ cnt' = cnt /\ obj' = obj
     /\ \A x \in SSlots :
          (SDestroy(x) /\ sp[x].ref_count_ = NULL) => cnt' = cnt /\ obj' = obj]_vars

\* C7 witness: after a move assignment the source is alive with null pointer
\* and null counter, and the destination holds an allocated counter and the
\* holder pointer that the source still has
C7_Witness ==
  /\ last.op = "SMoveAssign"
  /\ \E d, s \in SSlots :
       /\ d # s /\ sp[d].alive /\ sp[s].alive
       /\ sp[s].ptr_ = NULL /\ sp[s].ref_count_ = NULL
       /\ sp[d].ptr_ # NULL /\ sp[d].ref_count_ # NULL
       /\ cnt[sp[d].ref_count_].st = "live"
       /\ sp[d].deleter_ = sp[s].deleter_

\* C8: after moves of UniquePtr objects, destroying the source and the
\* destination deletes no callable holder twice, calls through no deleted
\* holder and runs the destroyer at most once on a pointee.
C8_MoveFreesNothingTwice ==
  /\ \A a \in DOMAIN hold : hold[a].dels <= 1
  /\ "holder_use_after_free" \notin ub
  /\ "holder_double_delete" \notin ub
  /\ \A p \in PAddr : Len(obj[p].log) <= 1

\* C9: every pointer given to a UniquePtr has a destroyer run on it at most
\* once, exactly once when no UniquePtr is left, and every destructor runs
\* its destroyer, also on a null pointer.
C9_EveryPointerDestroyedOnce ==
  /\ \A p \in PAddr : Len(obj[p].log) <= 1
  /\ (\A x \in USlots : ~up[x].alive) =>
       \A p \in PAddr : obj[p].st = "adopted" => Len(obj[p].log) = 1
  /\ last.op = "UDestroy" => Len(last.calls) = 1 /\ last.calls[1].fn \in Callables

\* C10: no callable holder is deleted twice, no two live Function objects
\* point to one holder, and no holder is left allocated when no Function
\* object is left.
C10_HolderDeletedOnce ==
  /\ \A a \in DOMAIN hold : hold[a].dels <= 1
  /\ \A f, g \in FnSlots :
       (f # g /\ fns[f].alive /\ fns[g].alive /\ fns[f].callable_ \in HAddr)
         => fns[f].callable_ # fns[g].callable_
  /\ (\A f \in FnSlots : ~fns[f].alive) => \A a \in DOMAIN hold : hold[a].st # "live"

\* C11: a default-constructed Function and a copy of a Function that holds
\* no callable hold no callable (the holder pointer is null, never an
\* indeterminate value), and invoking a Function that holds no callable
\* fails at the call and runs nothing.
C11_EmptyFunctionThrows ==
  /\ \A f \in FnSlots : fns[f].alive => fns[f].callable_ # Wild
  /\ "wild_pointer_use" \notin ub
  /\ (last.op = "FnCall" /\ fns[last.a].callable_ \notin HAddr)
       => last.calls[1].fn = "throw"

\* C12: a move construction, or a move assignment between two distinct
\* Function objects, leaves the source with a null holder pointer and gives
\* the destination the holder pointer the source had.
C12_MoveEmptiesSource ==
  [][\A d, s \in FnSlots :
       (FnMoveConstruct(d, s) \/ (d # s /\ FnMoveAssign(d, s))) =>
         /\ fns'[s].callable_ = NULL
         /\ fns'[d].callable_ = fns[s].callable_]_vars

\* the Function object f holds a callable: callable_ points to a holder that
\* has not been deleted
HoldsCallable(f) ==
  /\ fns[f].alive
  /\ fns[f].callable_ \in HAddr
  /\ hold[fns[f].callable_].st = "live"

\* C13: copy construction and copy assignment from a Function that holds a
\* callable give the destination a newly allocated holder, distinct from the
\* source's, with a copy of the callable in its current state, and change
\* neither the source nor its holder; an invocation changes the captured
\* state in the holder of the invoked object only and a destruction deletes
\* the holder of the destroyed object only, so the other stays invocable.
C13_CopyIsIndependent ==
  [][/\ \A d, s \in FnSlots :
          ((FnCopyConstruct(d, s) \/ (d # s /\ FnCopyAssign(d, s))) /\ HoldsCallable(s)) =>
            LET old == fns[s].callable_
                new == fns'[d].callable_
            IN  /\ new \in HAddr
                /\ new # old
                /\ hold[new].st = "unalloc"
                /\ hold'[new] = [st |-> "live", fn |-> hold[old].fn, dels |-> 0]
                /\ \A a \in HAddr \ {new} : hold'[a] = hold[a]
                /\ fns'[s] = fns[s]
     /\ \A f \in FnSlots :
          (FnCall(f) /\ HoldsCallable(f)) =>
            /\ last'.calls[1].fn = hold[fns[f].callable_].fn
            /\ \A a \in HAddr \ {fns[f].callable_} : hold'[a] = hold[a]
     /\ \A f \in FnSlots :
          (FnDestroy(f) /\ HoldsCallable(f)) =>
            \A a \in HAddr \ {fns[f].callable_} : hold'[a] = hold[a]]_vars

\* C13 witness: a Function whose callable has been invoked (its flag is set)
\* has just been copied; source and copy hold two live holders, each with
\* the flag set
C13_Witness ==
  /\ last.op = "FnCopyConstruct"
  /\ HoldsCallable(last.a) /\ HoldsCallable(last.b)
  /\ fns[last.a].callable_ # fns[last.b].callable_
  /\ hold[fns[last.a].callable_].fn = "flag1"
  /\ hold[fns[last.b].callable_].fn = "flag1"

\* C14: an Any constructed from the value v of type T holds a Holder<T> with
\* that value, and right after the construction cast<T>() yields the held
\* value v and cast<U>() fails for every other type U; every cast<U>() yields
\* a reference to the member of the live holder of the object, and only when
\* the holder's dynamic type is U, and fails otherwise, also when the Any is
\* empty.
C14_CastReturnsValue ==
  [][/\ \A a \in ASlots, T \in Types :
          \A v \in Values[T] :
            AnyFromValue(a, T, v) =>
              /\ any'[a].ptr_ \in BAddr
              /\ box'[any'[a].ptr_] = [st |-> "live", type |-> T, held |-> v, dels |-> 0]
              /\ Cast(box', Content(any'[a]), T) = [fn |-> "value", ptr |-> any'[a].ptr_]
              /\ \A U \in Types \ {T} : Cast(box', Content(any'[a]), U).fn = "throw"
     /\ \A a \in ASlots, U \in Types :
          AnyCast(a, U) =>
            LET r == last'.calls[1]
                matches == any[a].ptr_ # NULL /\ box[any[a].ptr_].type = U
            IN  /\ r.fn = (IF matches THEN "value" ELSE "throw")
                /\ r.fn = "value" => r.ptr = any[a].ptr_ /\ box[r.ptr].st = "live"
     /\ \A a \in ASlots : AnyDefault(a) => any'[a].ptr_ = NULL]_vars

\* C14 witness: cast<string>() has just returned the value "ab" held by an
\* Any, and an empty Any exists
C14_Witness ==
  /\ last.op = "AnyCast"
  /\ last.b = "string"
  /\ last.calls[1].fn = "value"
  /\ box[last.calls[1].ptr] = [st |-> "live", type |-> "string", held |-> "ab", dels |-> 0]
  /\ \E e \in ASlots : any[e].alive /\ any[e].ptr_ = NULL

\* C15: copy construction from an Any that holds the value v of type T gives
\* the copy a newly allocated holder of its own with type T and value v and
\* leaves the source and its holder unchanged; assigning to the value of one
\* Any changes the holder of that Any only.
C15_CopyKeepsValue ==
  [][/\ \A d, s \in ASlots :
          (AnyCopyConstruct(d, s) /\ any[s].ptr_ # NULL) =>
            LET old == any[s].ptr_
                new == any'[d].ptr_
            IN  /\ new \in BAddr
                /\ new # old
                /\ box[new].st = "unalloc"
                /\ box'[new].st = "live"
                /\ box'[new].type = box[old].type
                /\ box'[new].held = box[old].held
                /\ box'[old] = box[old]
                /\ any'[s] = any[s]
     /\ \A a \in ASlots, U \in Types :
          \A v \in Values[U] :
            (AnyAssignValue(a, U, v) /\ any[a].ptr_ # NULL) =>
              \A b \in BAddr \ {any[a].ptr_} : box'[b] = box[b]]_vars

\* C16: the copy assignment a = b changes nothing when a and b are the same
\* object; otherwise it leaves b and b's holder unchanged, makes a own a newly
\* allocated holder of the dynamic type of b's, and the holder a owned before
\* is destroyed exactly once; no callable holder is deleted twice or called
\* after its deletion and no value holder is deleted twice.
C16_AssignDestroysOldOnce ==
  [][\A d, s \in ASlots :
       AnyCopyAssign(d, s) =>
         IF d = s
           THEN any' = any /\ box' = box /\ hold' = hold
           ELSE /\ any'[s] = any[s]
                /\ any[s].ptr_ # NULL =>
                     /\ box'[any[s].ptr_] = box[any[s].ptr_]
                     /\ any'[d].ptr_ \in BAddr
                     /\ box[any'[d].ptr_].st = "unalloc"
                     /\ box'[any'[d].ptr_].st = "live"
                     /\ box'[any'[d].ptr_].type = box[any[s].ptr_].type
                /\ any[d].ptr_ # NULL =>
                     /\ box'[any[d].ptr_].st = "freed"
                     /\ box'[any[d].ptr_].dels = 1
                /\ ub' \cap {"holder_use_after_free", "holder_double_delete",
                             "box_double_delete"} = {}
                /\ \A a \in DOMAIN hold : hold'[a].dels <= 1]_vars

\* the UniquePtr x holds a destroyer: deleter_ points to a callable holder
\* that has not been deleted
HoldsDestroyer(x) ==
  /\ up[x].alive
  /\ up[x].deleter_ \in HAddr
  /\ hold[up[x].deleter_].st = "live"

\* C17: reset(p, c) of a UniquePtr that holds a destroyer makes exactly one
\* call, of the destroyer held before on the pointer held before, also when
\* that pointer is null; no other pointee is passed to a destroyer, the old
\* pointee is passed to the old destroyer only, and afterwards the UniquePtr
\* holds p and a newly allocated holder of the destroyer c.
C17_ResetInvokesOldDestroyer ==
  [][\A x \in USlots, p \in {NULL} \cup PAddr, c \in Callables :
       (UReset(x, p, c) /\ HoldsDestroyer(x)) =>
         LET oldFn == hold[up[x].deleter_].fn
             oldPtr == up[x].ptr_
         IN  /\ last'.calls = <<Call(oldFn, oldPtr)>>
             /\ \A q \in PAddr \ {oldPtr} : obj'[q].log = obj[q].log
             /\ (oldPtr # NULL /\ Len(obj[oldPtr].log) < 3) =>
                  obj'[oldPtr].log = Append(obj[oldPtr].log, [fn |-> oldFn, t |-> 0])
             /\ up'[x].ptr_ = p
             /\ up'[x].deleter_ \in HAddr
             /\ hold[up'[x].deleter_].st = "unalloc"
             /\ hold'[up'[x].deleter_] = [st |-> "live", fn |-> c, dels |-> 0]]_vars

\* C17 witness: reset(object 2, default destroyer) has just been called on a
\* UniquePtr that held object 1 with the logging destroyer: the logger ran
\* once on object 1, nothing ran on object 2
C17_Witness ==
  /\ last.op = "UReset"
  /\ last.calls = <<Call("log", 1)>>
  /\ up[last.a].ptr_ = 2
  /\ up[last.a].deleter_ \in HAddr
  /\ hold[up[last.a].deleter_].fn = "delete"
  /\ obj[1].log = <<[fn |-> "log", t |-> 0]>>
  /\ obj[2].log = <<>>
  /\ ub = {}

\* the SharedPtr x holds a destroyer: deleter_ points to a callable holder
\* that has not been deleted
HoldsDeleter(x) ==
  /\ sp[x].alive
  /\ sp[x].deleter_ \in HAddr
  /\ hold[sp[x].deleter_].st = "live"

\* C18: reset(p, c) of a SharedPtr lowers the counter it shared by exactly 1
\* when other sharers remain and runs no destroyer then; when it was the last
\* sharer the counter is deleted and its destroyer is run on the old pointee;
\* the other SharedPtr objects and the other counters are unchanged; after
\* reset with a non-null p the object holds p and a newly allocated counter
\* of value 1, after reset with null it is empty and use_count() is 0.
C18_ResetReleasesOnce ==
  [][\A x \in SSlots, p \in {NULL} \cup PAddr, c \in Callables :
       SReset(x, p, c) =>
         LET oc == sp[x].ref_count_
             op == sp[x].ptr_
             nc == sp'[x].ref_count_
         IN  /\ (oc # NULL /\ cnt[oc].val > 1) =>
                  /\ cnt'[oc] = [st |-> "live", val |-> cnt[oc].val - 1]
                  /\ obj' = Adopt(obj, p)
             /\ (oc # NULL /\ cnt[oc].val = 1) =>
                  /\ cnt'[oc].st = "freed"
                  /\ (HoldsDeleter(x) /\ op # NULL /\ Len(obj[op].log) < 3) =>
                       obj'[op].log = Append(obj[op].log, [fn |-> hold[sp[x].deleter_].fn, t |-> 0])
                  /\ \A q \in PAddr \ {op, p} : obj'[q] = obj[q]
             /\ oc = NULL => obj' = Adopt(obj, p)
             /\ \A y \in SSlots \ {x} : sp'[y] = sp[y]
             /\ \A a \in CAddr \ {oc, nc} : cnt'[a] = cnt[a]
             /\ sp'[x].alive
             /\ sp'[x].ptr_ = p
             /\ p # NULL =>
                  /\ nc \in CAddr
                  /\ cnt[nc].st = "unalloc"
                  /\ cnt'[nc] = [st |-> "live", val |-> 1]
             /\ p = NULL =>
                  /\ nc = NULL
                  /\ UseCount(cnt', ub', sp'[x]) = {[u |-> ub', v |-> 0]}]_vars

\* C18 witness: a SharedPtr to object 1 with the logging destroyer was copied
\* and the copy has just been reset to object 2: the counter of object 1 is
\* back to 1, object 1 is not destroyed, object 2 has a counter of 1, and the
\* holder that the copy had is still allocated
C18_Witness ==
  /\ last.op = "SReset"
  /\ ub = {}
  /\ obj[1].log = <<>>
  /\ hold[1].fn = "log"
  /\ hold[2] = [st |-> "live", fn |-> "log", dels |-> 0]
  /\ \E x, y \in SSlots :
       /\ x # y /\ sp[x].alive /\ sp[y].alive
       /\ sp[y].ptr_ = 1 /\ sp[y].deleter_ = 1
       /\ sp[x].ptr_ = 2 /\ sp[x].deleter_ = 3
       /\ sp[x].ref_count_ # sp[y].ref_count_
       /\ cnt[sp[x].ref_count_] = [st |-> "live", val |-> 1]
       /\ cnt[sp[y].ref_count_] = [st |-> "live", val |-> 1]

\* C19: any two SharedPtr objects that share one counter hold the same
\* destroyer, so that whichever of them is released last runs the destroyer
\* the counter was created with.
C19_SharersHoldSameDestroyer ==
  \A x, y \in SSlots :
    (/\ HoldsDeleter(x) /\ HoldsDeleter(y)
     /\ sp[x].ref_count_ # NULL
     /\ sp[x].ref_count_ = sp[y].ref_count_)
      => hold[sp[x].deleter_].fn = hold[sp[y].deleter_].fn

\* C20: swap of two distinct UniquePtr objects that hold destroyers exchanges
\* their pointers and their destroyers and leaves both with a destroyer whose
\* holder is not deleted; under constructions, swaps and destructions no
\* callable holder is deleted twice or called after its deletion, and once
\* no UniquePtr is left every pointee adopted has been passed to a destroyer
\* exactly once.
C20_SwapExchanges ==
  /\ [](/\ \A a \in DOMAIN hold : hold[a].dels <= 1
        /\ ub \cap {"holder_use_after_free", "holder_double_delete"} = {}
        /\ \A p \in PAddr : Len(obj[p].log) <= 1
        /\ (\A x \in USlots : ~up[x].alive) =>
             \A p \in PAddr : obj[p].st = "adopted" => Len(obj[p].log) = 1)
  /\ [][\A a, b \in USlots :
          (USwap(a, b) /\ a # b /\ HoldsDestroyer(a) /\ HoldsDestroyer(b)) =>
            /\ up'[a].ptr_ = up[b].ptr_
            /\ up'[b].ptr_ = up[a].ptr_
            /\ up'[a].deleter_ \in HAddr /\ up'[b].deleter_ \in HAddr
            /\ hold'[up'[a].deleter_] = [st |-> "live", fn |-> hold[up[b].deleter_].fn, dels |-> 0]
            /\ hold'[up'[b].deleter_] = [st |-> "live", fn |-> hold[up[a].deleter_].fn, dels |-> 0]
            /\ obj' = obj]_vars

====
